---- MODULE Spec2Model ----
(***************************************************************************)
(* DataTable (src/src/components/InputField/InputField.stories.tsx,        *)
(* lines 281-552): the client-side sort / select state machine of the      *)
(* table component, together with the JavaScript semantics its comparator  *)
(* and Array.prototype.sort rely on.                                       *)
(*                                                                         *)
(* One action is one UI event (or one change of the props by the parent)   *)
(* followed by the re-render it causes: the handler runs against the       *)
(* values of the render it was created in, the state setters take effect,  *)
(* and the memoised sortedData is recomputed.                              *)
(*                                                                         *)
(* InputField (src/src/components/InputField/InputField.tsx): the          *)
(* controlled / uncontrolled text input with its clear button, password    *)
(* toggle and loading spinner, modelled the same way.                      *)
(***************************************************************************)
EXTENDS Integers, Sequences, FiniteSets, TLC

VARIABLES
  data,          \* prop: the caller's rows, in the caller's order
  columns,       \* prop: the column model
  loading,       \* prop
  selectable,    \* prop
  sortImpl,      \* which Array.prototype.sort the host engine ships
  selectedRows,  \* useState<Set<number>>: positions, in insertion order
  sortColumn,    \* useState<string | null>
  sortDirection, \* useState<"asc" | "desc" | null>
  sortedData,    \* useMemo: the displayed view
  emitted,       \* the payloads handed to onRowSelect by the latest step
  lastOp,        \* the latest step (event and its arguments)
  keepReport,    \* history: whether the run records the latest payload
  reported,      \* history: the argument of the latest onRowSelect call
  value,         \* InputField prop: a string, or Undefined when not passed
  type,          \* InputField prop: "text" | "password" | "email"
  disabled,      \* InputField prop
  fieldLoading,  \* InputField prop loading
  showClearButton, \* InputField prop
  hasRef,        \* InputField: the forwarded ref is an object ref
  showPassword,  \* InputField useState(false)
  internalValue, \* InputField useState("")
  changes        \* the event values handed to onChange by the latest step

inputVars == <<value, type, disabled, fieldLoading, showClearButton, hasRef,
               showPassword, internalValue, changes>>

tableVars == <<data, columns, loading, selectable, sortImpl, selectedRows,
               sortColumn, sortDirection, sortedData, emitted,
               keepReport, reported>>

vars == <<tableVars, lastOp, inputVars>>

(***************************************************************************)
(* Bounds.                                                                 *)
(***************************************************************************)
MaxRows == 2       \* longest data sequence of the full state machine
MaxSortRows == 4   \* longest data sequence of the sort-only specification
MaxTyped == 2      \* longest text typed into the InputField

(***************************************************************************)
(* JavaScript values.  A string is its sequence of UTF-16 code units.      *)
(***************************************************************************)
Null == "<null>"
Undefined == [t |-> "undefined"]
Str(s) == [t |-> "string", v |-> s]
Num(n) == [t |-> "number", v |-> n]
Elem(child) == [t |-> "object", child |-> child]
NaN == [nan |-> TRUE, n |-> 0]

s_banana == <<98, 97, 110, 97, 110, 97>>
s_Apple == <<65, 112, 112, 108, 101>>
s_apple == <<97, 112, 112, 108, 101>>
s_cherry == <<99, 104, 101, 114, 114, 121>>
s_active == <<97, 99, 116, 105, 118, 101>>
s_inactive == <<105, 110, 97, 99, 116, 105, 118, 101>>
s_objectObject == <<91, 111, 98, 106, 101, 99, 116, 32, 79, 98, 106, 101, 99, 116, 93>>

Min(S) == CHOOSE x \in S : \A y \in S : x <= y

\* String.prototype.toLowerCase on the ASCII range
LowerUnit(c) == IF c >= 65 /\ c <= 90 THEN c + 32 ELSE c
ToLowerCase(s) == [i \in 1..Len(s) |-> LowerUnit(s[i])]

\* s < t on strings: code unit by code unit, a proper prefix is smaller
StrLess(s, t) ==
  LET n == IF Len(s) < Len(t) THEN Len(s) ELSE Len(t)
      diff == {i \in 1..n : s[i] # t[i]}
  IN IF diff = {} THEN Len(s) < Len(t)
     ELSE s[Min(diff)] < t[Min(diff)]

\* ToPrimitive: a plain object (a React element) becomes "[object Object]"
ToPrimitive(x) == IF x.t = "object" THEN Str(s_objectObject) ELSE x

RECURSIVE DigitsValue(_, _)
DigitsValue(s, acc) ==
  IF s = <<>> THEN acc ELSE DigitsValue(Tail(s), 10 * acc + (Head(s) - 48))

\* ToNumber of a primitive: undefined and non-numeric text are NaN
ToNumber(p) ==
  CASE p.t = "number" -> [nan |-> FALSE, n |-> p.v]
    [] p.t = "undefined" -> NaN
    [] p.t = "string" ->
         IF \A i \in 1..Len(p.v) : p.v[i] >= 48 /\ p.v[i] <= 57
           THEN [nan |-> FALSE, n |-> DigitsValue(p.v, 0)]
           ELSE NaN

\* the relational operator a < b (a > b is JSLess(b, a))
JSLess(a, b) ==
  LET pa == ToPrimitive(a)
      pb == ToPrimitive(b)
  IN IF pa.t = "string" /\ pb.t = "string" THEN StrLess(pa.v, pb.v)
     ELSE LET na == ToNumber(pa)
              nb == ToNumber(pb)
          IN IF na.nan \/ nb.nan THEN FALSE ELSE na.n < nb.n

(***************************************************************************)
(* Rows and the column model.                                              *)
(***************************************************************************)
Row1 == [id |-> 1, name |-> Str(s_banana), stock |-> Num(5), status |-> Str(s_active)]
Row2 == [id |-> 2, name |-> Str(s_Apple), stock |-> Num(3), status |-> Str(s_inactive)]
Row3 == [id |-> 3, name |-> Str(s_cherry), status |-> Str(s_active)]
Row4 == [id |-> 4, name |-> Str(s_apple), stock |-> Num(3), status |-> Str(s_active)]

TableRows == {Row1, Row2}
Rows == {Row1, Row2, Row3, Row4}

UserColumns ==
  << [key |-> "name", sortable |-> TRUE],
     [key |-> "stock", sortable |-> TRUE],
     [key |-> "status", sortable |-> TRUE, accessor |-> "badge"],
     [key |-> "id", sortable |-> FALSE],
     [key |-> "email"] >>

\* the columns of the CustomRendering story: only name is sortable
CustomColumns ==
  << [key |-> "name", sortable |-> TRUE],
     [key |-> "status", accessor |-> "badge"] >>

ColumnModels == {UserColumns, CustomColumns}

\* item[key]: an absent field reads as undefined
Field(item, key) == IF key \in DOMAIN item THEN item[key] ELSE Undefined

\* column.accessor(item): the status badge, a React element
Accessor(column, item) == Elem(Field(item, column.key))

HasAccessor(column) == "accessor" \in DOMAIN column

\* no guard at all
IsSortable_Always(column) == TRUE

\* a guard that only rejects an explicit sortable: false
IsSortable_UnlessFalse(column) == ~("sortable" \in DOMAIN column /\ ~column.sortable)

\* !column.sortable is true for sortable: false and for no flag at all
IsSortable(column) == "sortable" \in DOMAIN column /\ column.sortable

\* columns.find((col) => col.key === sortColumn): <<the first match>>, or
\* <<>> when find returns undefined
FindColumn(cols, key) ==
  LET hits == {i \in 1..Len(cols) : cols[i].key = key}
  IN IF hits = {} THEN <<>> ELSE <<cols[Min(hits)]>>

\* renderCellContent
renderCellContent(item, column) ==
  IF HasAccessor(column) THEN Accessor(column, item) ELSE Field(item, column.key)

(***************************************************************************)
(* The sort engine: the comparator of sortedData and the host's            *)
(* Array.prototype.sort.                                                   *)
(***************************************************************************)
\* a comparator that always reads the field
SortValue_FieldOnly(item, cols, sc) == Field(item, sc)

\* the value the comparator extracts from a row (lines 329-342)
SortValue(item, cols, sc) ==
  LET found == FindColumn(cols, sc)
  IN IF found # <<>> /\ HasAccessor(found[1])
       THEN Accessor(found[1], item)
       ELSE Field(item, sc)

\* a comparator that skips the lowercasing
Normalise_AsIs(v, w) == v

\* lines 344-348: two strings are compared lowercased
Normalise(v, w) ==
  IF v.t = "string" /\ w.t = "string" THEN Str(ToLowerCase(v.v)) ELSE v

\* a comparator that ignores the direction
compareFn_AlwaysAsc(a, b, k) ==
  LET aRaw == SortValue(a, k.cols, k.sc)
      bRaw == SortValue(b, k.cols, k.sc)
      aValue == Normalise(aRaw, bRaw)
      bValue == Normalise(bRaw, aRaw)
  IN IF JSLess(aValue, bValue) THEN -1
     ELSE IF JSLess(bValue, aValue) THEN 1
     ELSE 0

\* a comparator without the equal case: return aValue < bValue ? -1 : 1
compareFn_NoTie(a, b, k) ==
  LET aRaw == SortValue(a, k.cols, k.sc)
      bRaw == SortValue(b, k.cols, k.sc)
      aValue == Normalise(aRaw, bRaw)
      bValue == Normalise(bRaw, aRaw)
  IN IF JSLess(aValue, bValue) THEN (IF k.sd = "asc" THEN -1 ELSE 1)
     ELSE (IF k.sd = "asc" THEN 1 ELSE -1)

\* the comparator passed to sort (lines 328-353); k = [cols, sc, sd]
compareFn(a, b, k) ==
  LET aRaw == SortValue(a, k.cols, k.sc)
      bRaw == SortValue(b, k.cols, k.sc)
      aValue == Normalise(aRaw, bRaw)
      bValue == Normalise(bRaw, aRaw)
  IN IF JSLess(aValue, bValue) THEN (IF k.sd = "asc" THEN -1 ELSE 1)
     ELSE IF JSLess(bValue, aValue) THEN (IF k.sd = "asc" THEN 1 ELSE -1)
     ELSE 0

\* a move that overwrites the target instead of shifting the elements
MoveTo_Overwrite(arr, from, to) ==
  [i \in 1..Len(arr) |-> IF i = to THEN arr[from] ELSE arr[i]]

\* move the element at position from down to position to (to <= from)
MoveTo(arr, from, to) ==
  [i \in 1..Len(arr) |->
     IF i < to \/ i > from THEN arr[i]
     ELSE IF i = to THEN arr[from] ELSE arr[i - 1]]

ReverseRange(arr, n) ==
  [i \in 1..Len(arr) |-> IF i <= n THEN arr[n + 1 - i] ELSE arr[i]]

\* V8 (array-sort.tq) CountAndMakeRun: the length of the run that starts
\* the array, non-descending or strictly descending
RECURSIVE RunEnd(_, _, _, _)
RunEnd(arr, idx, isDescending, k) ==
  IF idx > Len(arr) THEN Len(arr)
  ELSE LET order == compareFn(arr[idx], arr[idx - 1], k)
       IN IF (isDescending /\ order >= 0) \/ (~isDescending /\ order < 0)
            THEN idx - 1
            ELSE RunEnd(arr, idx + 1, isDescending, k)

RECURSIVE BinarySearch(_, _, _, _, _)
BinarySearch(arr, pivot, left, right, k) ==
  IF left >= right THEN left
  ELSE LET mid == left + ((right - left) \div 2)
       IN IF compareFn(pivot, arr[mid], k) < 0
            THEN BinarySearch(arr, pivot, left, mid, k)
            ELSE BinarySearch(arr, pivot, mid + 1, right, k)

\* V8 BinaryInsertionSort: arr[1..start-1] is sorted, insert the rest
RECURSIVE BinaryInsertionSort(_, _, _)
BinaryInsertionSort(arr, start, k) ==
  IF start > Len(arr) THEN arr
  ELSE BinaryInsertionSort(
         MoveTo(arr, start, BinarySearch(arr, arr[start], 1, start, k)),
         start + 1, k)

\* V8 ArrayTimSortImpl on an array shorter than 64: one run, extended by
\* binary insertion to the whole array
TimSort(arr, k) ==
  IF Len(arr) < 2 THEN arr
  ELSE LET isDescending == compareFn(arr[2], arr[1], k) < 0
           runLength == RunEnd(arr, 3, isDescending, k)
           run == IF isDescending THEN ReverseRange(arr, runLength) ELSE arr
       IN BinaryInsertionSort(run, runLength + 1, k)

\* the insertion sort merge-sort engines use on short arrays: an element
\* moves down past every element that compares greater
RECURSIVE InsertionPoint(_, _, _, _)
InsertionPoint(arr, item, j, k) ==
  IF j < 1 THEN 1
  ELSE IF compareFn(arr[j], item, k) <= 0 THEN j + 1
  ELSE InsertionPoint(arr, item, j - 1, k)

RECURSIVE InsertionSort(_, _, _)
InsertionSort(arr, i, k) ==
  IF i > Len(arr) THEN arr
  ELSE InsertionSort(
         MoveTo(arr, i, InsertionPoint(arr, arr[i], i - 1, k)), i + 1, k)

SortImpls == {"timsort", "insertion"}

\* [...data].sort(compareFn)
ArraySort(arr, k, impl) ==
  IF impl = "timsort" THEN TimSort(arr, k) ELSE InsertionSort(arr, 2, k)

\* !x for a string | null
Falsy(x) == x = Null \/ x = ""

\* the useMemo body (lines 325-354)
ComputeSortedData(d, cols, sc, sd, impl) ==
  IF Falsy(sc) \/ Falsy(sd) THEN d
  ELSE ArraySort(d, [cols |-> cols, sc |-> sc, sd |-> sd], impl)

(***************************************************************************)
(* The component: derived values of a render.                              *)
(***************************************************************************)
\* the branches with the empty test first
RenderState_EmptyFirst ==
  IF Len(data) = 0 THEN "Empty"
  ELSE IF loading THEN "Loading"
  ELSE "Normal"

\* the three return branches (lines 443-470)
RenderState ==
  IF loading THEN "Loading"
  ELSE IF ~loading /\ Len(data) = 0 THEN "Empty"
  ELSE "Normal"

Range(f) == {f[i] : i \in DOMAIN f}

\* selectedRows.has(index)
Has(set, index) == index \in Range(set)

\* Set.prototype.add / delete on an insertion-ordered set
SetAdd(set, index) == IF Has(set, index) THEN set ELSE Append(set, index)

\* a delete that drops the most recently added position
SetDelete_Last(set, index) == SubSeq(set, 1, Len(set) - 1)

SetDelete(set, index) == SelectSeq(set, LAMBDA x : x # index)

\* sortedData[i] for a 0-based i: undefined beyond the end
At(arr, i) == IF i + 1 \in DOMAIN arr THEN arr[i + 1] ELSE Undefined

\* an all-selected test without the non-empty check
isAllSelected_NoEmptyCheck == Len(selectedRows) = Len(sortedData)

\* lines 406-407
isAllSelected == Len(selectedRows) > 0 /\ Len(selectedRows) = Len(sortedData)
isIndeterminate == Len(selectedRows) > 0 /\ Len(selectedRows) < Len(sortedData)

\* a select-all checkbox rendered without looking at selectable
SelectAllShown_Always == RenderState = "Normal"

\* the header checkbox exists in the table branch when selectable (477-490)
SelectAllShown == RenderState = "Normal" /\ selectable

\* a row checkbox rendered without looking at selectable
RowCheckboxShown_Always(index) ==
  RenderState = "Normal" /\ index \in 0..(Len(sortedData) - 1)

\* the checkbox of the row at position index exists in the table branch,
\* when selectable, for each row of the view (lines 511-529)
RowCheckboxShown(index) ==
  RenderState = "Normal" /\ selectable /\ index \in 0..(Len(sortedData) - 1)

RECURSIVE SeqsUpTo(_, _)
SeqsUpTo(S, n) ==
  IF n = 0 THEN {<<>>}
  ELSE LET shorter == SeqsUpTo(S, n - 1)
       IN shorter \cup {Append(q, x) : q \in {r \in shorter : Len(r) = n - 1}, x \in S}

\* the data arrays a caller passes
DataInputs == SeqsUpTo(TableRows, MaxRows)
SortInputs == SeqsUpTo(Rows, MaxSortRows)

(***************************************************************************)
(* Initial states.                                                         *)
(***************************************************************************)
\* a page that renders no InputField
NoInputField ==
  /\ value = Undefined
  /\ type = "text"
  /\ disabled = FALSE
  /\ fieldLoading = FALSE
  /\ showClearButton = FALSE
  /\ hasRef = FALSE
  /\ showPassword = FALSE
  /\ internalValue = Str(<<>>)
  /\ changes = <<>>

\* the state of useState at mount (lines 320-322) for given props
Mount(d, cols) ==
  /\ data = d
  /\ columns = cols
  /\ sortImpl \in SortImpls
  /\ selectedRows = <<>>
  /\ sortColumn = Null
  /\ sortDirection = Null
  /\ sortedData = ComputeSortedData(d, cols, Null, Null, sortImpl)
  /\ emitted = <<>>
  /\ lastOp = [op |-> "mount"]
  /\ reported = <<>>
  /\ NoInputField

Init ==
  /\ \E d \in DataInputs, cols \in ColumnModels : Mount(d, cols)
  /\ loading \in BOOLEAN
  /\ selectable \in BOOLEAN
  /\ keepReport = FALSE

(***************************************************************************)
(* Events.                                                                 *)
(***************************************************************************)
\* handleSort that leaves the direction alone when the column changes
SortStateAfterClick_KeepDirection(column, sc, sd) ==
  IF ~IsSortable(column) THEN [sortColumn |-> sc, sortDirection |-> sd]
  ELSE IF sc = column.key
    THEN IF sd = "asc" THEN [sortColumn |-> sc, sortDirection |-> "desc"]
         ELSE IF sd = "desc" THEN [sortColumn |-> Null, sortDirection |-> Null]
         ELSE [sortColumn |-> sc, sortDirection |-> sd]
    ELSE [sortColumn |-> column.key,
          sortDirection |-> IF sd = Null THEN "asc" ELSE sd]

\* handleSort that goes from desc back to asc
SortStateAfterClick_TwoState(column, sc, sd) ==
  IF ~IsSortable(column) THEN [sortColumn |-> sc, sortDirection |-> sd]
  ELSE IF sc = column.key
    THEN IF sd = "asc" THEN [sortColumn |-> sc, sortDirection |-> "desc"]
         ELSE [sortColumn |-> sc, sortDirection |-> "asc"]
    ELSE [sortColumn |-> column.key, sortDirection |-> "asc"]

\* handleSort that resets the direction but not the column
SortStateAfterClick_KeepColumn(column, sc, sd) ==
  IF ~IsSortable(column) THEN [sortColumn |-> sc, sortDirection |-> sd]
  ELSE IF sc = column.key
    THEN IF sd = "asc" THEN [sortColumn |-> sc, sortDirection |-> "desc"]
         ELSE [sortColumn |-> sc, sortDirection |-> Null]
    ELSE [sortColumn |-> column.key, sortDirection |-> "asc"]

\* the state setters handleSort calls (lines 358-373): the sort state the
\* next render sees after a click on column while the state is (sc, sd)
SortStateAfterClick(column, sc, sd) ==
  IF ~IsSortable(column) THEN [sortColumn |-> sc, sortDirection |-> sd]
  ELSE IF sc = column.key
    THEN IF sd = "asc" THEN [sortColumn |-> sc, sortDirection |-> "desc"]
         ELSE IF sd = "desc" THEN [sortColumn |-> Null, sortDirection |-> Null]
         ELSE [sortColumn |-> sc, sortDirection |-> sd]
    ELSE [sortColumn |-> column.key, sortDirection |-> "asc"]

\* a header click that also drops the selection
handleSort_ClearSelection(i) ==
  LET after == SortStateAfterClick(columns[i], sortColumn, sortDirection)
  IN /\ RenderState = "Normal"
     /\ sortColumn' = after.sortColumn
     /\ sortDirection' = after.sortDirection
     /\ sortedData' =
          ComputeSortedData(data, columns, sortColumn', sortDirection', sortImpl)
     /\ selectedRows' = <<>>
     /\ emitted' = <<>>
     /\ lastOp' = [op |-> "handleSort", column |-> columns[i].key]
     /\ UNCHANGED <<inputVars, data, columns, loading, selectable, sortImpl,
                    keepReport, reported>>

\* handleSort (lines 357-374), reached from the header cell of columns[i]
handleSort(i) ==
  LET after == SortStateAfterClick(columns[i], sortColumn, sortDirection)
  IN /\ RenderState = "Normal"
     /\ sortColumn' = after.sortColumn
     /\ sortDirection' = after.sortDirection
     /\ sortedData' =
          ComputeSortedData(data, columns, sortColumn', sortDirection', sortImpl)
     /\ emitted' = <<>>
     /\ lastOp' = [op |-> "handleSort", column |-> columns[i].key]
     /\ UNCHANGED <<inputVars, data, columns, loading, selectable, sortImpl, keepReport, reported, selectedRows>>

\* a lookup in the caller's array instead of the displayed view
SelectedData_FromData(view, set) == [j \in 1..Len(set) |-> At(data, set[j])]

\* Array.from(newSelectedRows).map((i) => sortedData[i]) (line 389)
SelectedData(view, set) == [j \in 1..Len(set) |-> At(view, set[j])]

\* a row toggle that reports only when a row is checked
handleRowSelect_SilentUncheck(index) ==
  LET checked == ~Has(selectedRows, index)
      newSelectedRows ==
        IF checked THEN SetAdd(selectedRows, index)
        ELSE SetDelete(selectedRows, index)
  IN /\ RowCheckboxShown(index)
     /\ selectedRows' = newSelectedRows
     /\ emitted' = IF checked THEN <<SelectedData(sortedData, newSelectedRows)>>
                   ELSE <<>>
     /\ lastOp' = [op |-> "handleRowSelect", index |-> index, checked |-> checked]
     /\ reported' = IF keepReport THEN emitted' ELSE reported
     /\ UNCHANGED <<inputVars, data, columns, loading, selectable, sortImpl,
                    sortColumn, sortDirection, sortedData, keepReport>>

\* handleRowSelect (lines 377-391), reached from the checkbox of the row at
\* position index; the checkbox reports the negation of what it shows
handleRowSelect(index) ==
  LET checked == ~Has(selectedRows, index)
      newSelectedRows ==
        IF checked THEN SetAdd(selectedRows, index)
        ELSE SetDelete(selectedRows, index)
  IN /\ RowCheckboxShown(index)
     /\ selectedRows' = newSelectedRows
     /\ emitted' = <<SelectedData(sortedData, newSelectedRows)>>
     /\ lastOp' = [op |-> "handleRowSelect", index |-> index, checked |-> checked]
     /\ reported' = IF keepReport THEN emitted' ELSE reported
     /\ UNCHANGED <<inputVars, data, columns, loading, selectable, sortImpl,
                    sortColumn, sortDirection, sortedData, keepReport>>

\* positions numbered from 1
AllIndices_OneBased(view) == [j \in 1..Len(view) |-> j]

\* new Set(sortedData.map((_, index) => index)) (line 396)
AllIndices(view) == [j \in 1..Len(view) |-> j - 1]

\* a select-all whose unchecking reports the rows that were selected
handleSelectAll_ReportsOld ==
  LET checked == ~isAllSelected
  IN /\ SelectAllShown
     /\ IF checked
          THEN /\ selectedRows' = AllIndices(sortedData)
               /\ emitted' = <<sortedData>>
          ELSE /\ selectedRows' = <<>>
               /\ emitted' = <<SelectedData(sortedData, selectedRows)>>
     /\ lastOp' = [op |-> "handleSelectAll", checked |-> checked]
     /\ reported' = IF keepReport THEN emitted' ELSE reported
     /\ UNCHANGED <<inputVars, data, columns, loading, selectable, sortImpl,
                    sortColumn, sortDirection, sortedData, keepReport>>

\* handleSelectAll (lines 394-403), reached from the header checkbox, which
\* reports the negation of what it shows
handleSelectAll ==
  LET checked == ~isAllSelected
  IN /\ SelectAllShown
     /\ IF checked
          THEN /\ selectedRows' = AllIndices(sortedData)
               /\ emitted' = <<sortedData>>
          ELSE /\ selectedRows' = <<>>
               /\ emitted' = << <<>> >>
     /\ lastOp' = [op |-> "handleSelectAll", checked |-> checked]
     /\ reported' = IF keepReport THEN emitted' ELSE reported
     /\ UNCHANGED <<inputVars, data, columns, loading, selectable, sortImpl,
                    sortColumn, sortDirection, sortedData, keepReport>>

\* a data change that also resets the sort
SetData_ResetSort(d) ==
  /\ d # data
  /\ data' = d
  /\ sortColumn' = Null
  /\ sortDirection' = Null
  /\ sortedData' = d
  /\ emitted' = <<>>
  /\ lastOp' = [op |-> "setData"]
  /\ UNCHANGED <<inputVars, columns, loading, selectable, sortImpl, keepReport, reported, selectedRows>>

\* the parent renders the table with another data array
SetData(d) ==
  /\ d # data
  /\ data' = d
  /\ sortedData' = ComputeSortedData(d, columns, sortColumn, sortDirection, sortImpl)
  /\ emitted' = <<>>
  /\ lastOp' = [op |-> "setData"]
  /\ UNCHANGED <<inputVars, columns, loading, selectable, sortImpl, keepReport, reported, selectedRows,
                 sortColumn, sortDirection>>

\* the parent renders the table with another column model
SetColumns(cols) ==
  /\ cols # columns
  /\ columns' = cols
  /\ sortedData' = ComputeSortedData(data, cols, sortColumn, sortDirection, sortImpl)
  /\ emitted' = <<>>
  /\ lastOp' = [op |-> "setColumns"]
  /\ UNCHANGED <<inputVars, data, loading, selectable, sortImpl, keepReport, reported, selectedRows,
                 sortColumn, sortDirection>>

\* the parent flips the loading prop
SetLoading ==
  /\ loading' = ~loading
  /\ emitted' = <<>>
  /\ lastOp' = [op |-> "setLoading"]
  /\ UNCHANGED <<inputVars, data, columns, selectable, sortImpl, keepReport, reported, selectedRows,
                 sortColumn, sortDirection, sortedData>>

Next ==
  \/ \E i \in 1..Len(columns) : handleSort(i)
  \/ \E index \in 0..(MaxRows - 1) : handleRowSelect(index)
  \/ handleSelectAll
  \/ \E d \in DataInputs : SetData(d)
  \/ \E cols \in ColumnModels : SetColumns(cols)
  \/ SetLoading

Spec == Init /\ [][Next]_vars

(***************************************************************************)
(* The sort engine alone: a table that is neither loading nor selectable,  *)
(* over every data sequence of up to MaxSortRows rows, driven by header    *)
(* clicks.                                                                 *)
(***************************************************************************)
InitSort ==
  /\ \E d \in SortInputs : Mount(d, UserColumns)
  /\ loading = FALSE
  /\ selectable = FALSE
  /\ keepReport = FALSE

NextSort == \E i \in 1..Len(columns) : handleSort(i)

SpecSort == InitSort /\ [][NextSort]_vars

(***************************************************************************)
(* The selectable table as its parent sees it: a table that is not loading *)
(* and offers the checkboxes, with the latest payload of onRowSelect kept   *)
(* as a history variable.                                                  *)
(***************************************************************************)
InitReport ==
  /\ \E d \in DataInputs : Mount(d, UserColumns)
  /\ loading = FALSE
  /\ selectable = TRUE
  /\ keepReport = TRUE

NextReport ==
  \/ \E i \in 1..Len(columns) : handleSort(i)
  \/ \E index \in 0..(MaxRows - 1) : handleRowSelect(index)
  \/ handleSelectAll
  \/ \E d \in DataInputs : SetData(d)

SpecReport == InitReport /\ [][NextReport]_vars

(***************************************************************************)
(* The InputField component (InputField.tsx).                              *)
(***************************************************************************)
\* the text of n letters "a"
Text(n) == Str([i \in 1..n |-> 97])

\* the texts a user types or a parent passes
Texts == {Text(n) : n \in 0..MaxTyped}

\* JavaScript truthiness of a string | undefined
Truthy(v) == v # Undefined /\ v # Str(<<>>)

\* line 50
isControlled == value # Undefined

\* line 51
displayValue == IF isControlled THEN value ELSE internalValue

\* the type attribute of the input element (line 146)
InputType == IF type = "password" /\ showPassword THEN "text" ELSE type

\* the disabled attribute of the input element (line 150)
InputDisabled == disabled \/ fieldLoading

\* lines 165-169
SpinnerShown == fieldLoading

\* a clear button that stays while the field is loading
ClearShown_WhileLoading ==
  showClearButton /\ Truthy(displayValue) /\ ~disabled

\* lines 171-181
ClearShown ==
  ~fieldLoading /\ showClearButton /\ Truthy(displayValue) /\ ~disabled

\* lines 183-194
ToggleShown == ~fieldLoading /\ ~showClearButton /\ type = "password"

\* a page that renders no DataTable
NoDataTable ==
  /\ data = <<>>
  /\ columns = <<>>
  /\ loading = FALSE
  /\ selectable = FALSE
  /\ sortImpl = "timsort"
  /\ selectedRows = <<>>
  /\ sortColumn = Null
  /\ sortDirection = Null
  /\ sortedData = <<>>
  /\ emitted = <<>>
  /\ keepReport = FALSE
  /\ reported = <<>>

\* the InputField at mount (lines 47-48) for any props
InitInput ==
  /\ NoDataTable
  /\ value \in Texts \cup {Undefined}
  /\ type \in {"text", "password", "email"}
  /\ disabled \in BOOLEAN
  /\ fieldLoading \in BOOLEAN
  /\ showClearButton \in BOOLEAN
  /\ hasRef \in BOOLEAN
  /\ showPassword = FALSE
  /\ internalValue = Str(<<>>)
  /\ changes = <<>>
  /\ lastOp = [op |-> "mount"]

\* a change handler that stores the text in both modes
handleChange_AlwaysInternal(v) ==
  /\ ~InputDisabled
  /\ v # displayValue
  /\ internalValue' = v
  /\ changes' = <<v>>
  /\ lastOp' = [op |-> "handleChange", value |-> v]
  /\ UNCHANGED <<tableVars, value, type, disabled, fieldLoading,
                 showClearButton, hasRef, showPassword>>

\* handleChange (lines 53-58): the user edits the text of the enabled input
\* to v
handleChange(v) ==
  /\ ~InputDisabled
  /\ v # displayValue
  /\ internalValue' = IF ~isControlled THEN v ELSE internalValue
  /\ changes' = <<v>>
  /\ lastOp' = [op |-> "handleChange", value |-> v]
  /\ UNCHANGED <<tableVars, value, type, disabled, fieldLoading,
                 showClearButton, hasRef, showPassword>>

\* handleClear (lines 60-82), reached from the clear button.  With an object
\* ref the native value is emptied and an input event dispatched, which
\* React delivers to handleChange before handleClear goes on.
handleClear ==
  /\ ClearShown
  /\ internalValue' = IF ~isControlled THEN Str(<<>>) ELSE internalValue
  /\ changes' = IF hasRef THEN <<Str(<<>>), Str(<<>>)>> ELSE <<Str(<<>>)>>
  /\ lastOp' = [op |-> "handleClear"]
  /\ UNCHANGED <<tableVars, value, type, disabled, fieldLoading,
                 showClearButton, hasRef, showPassword>>

\* an eye button that only ever reveals
togglePasswordVisibility_OnlyShow ==
  /\ ToggleShown
  /\ ~disabled
  /\ showPassword' = TRUE
  /\ changes' = <<>>
  /\ lastOp' = [op |-> "togglePasswordVisibility"]
  /\ UNCHANGED <<tableVars, value, type, disabled, fieldLoading,
                 showClearButton, hasRef, internalValue>>

\* togglePasswordVisibility (lines 84-86), reached from the eye button,
\* which is disabled with the field (line 187)
togglePasswordVisibility ==
  /\ ToggleShown
  /\ ~disabled
  /\ showPassword' = ~showPassword
  /\ changes' = <<>>
  /\ lastOp' = [op |-> "togglePasswordVisibility"]
  /\ UNCHANGED <<tableVars, value, type, disabled, fieldLoading,
                 showClearButton, hasRef, internalValue>>

\* the parent of a controlled field passes another value
SetValue(v) ==
  /\ isControlled
  /\ v # value
  /\ value' = v
  /\ changes' = <<>>
  /\ lastOp' = [op |-> "setValue"]
  /\ UNCHANGED <<tableVars, type, disabled, fieldLoading, showClearButton,
                 hasRef, showPassword, internalValue>>

\* the parent flips the disabled prop
SetDisabled ==
  /\ disabled' = ~disabled
  /\ changes' = <<>>
  /\ lastOp' = [op |-> "setDisabled"]
  /\ UNCHANGED <<tableVars, value, type, fieldLoading, showClearButton,
                 hasRef, showPassword, internalValue>>

\* the parent flips the loading prop
SetFieldLoading ==
  /\ fieldLoading' = ~fieldLoading
  /\ changes' = <<>>
  /\ lastOp' = [op |-> "setFieldLoading"]
  /\ UNCHANGED <<tableVars, value, type, disabled, showClearButton,
                 hasRef, showPassword, internalValue>>

NextInput ==
  \/ \E v \in Texts : handleChange(v)
  \/ handleClear
  \/ togglePasswordVisibility
  \/ \E v \in Texts : SetValue(v)
  \/ SetDisabled
  \/ SetFieldLoading

SpecInput == InitInput /\ [][NextInput]_vars

TypeOK ==
  /\ sortColumn \in {Null} \cup {UserColumns[i].key : i \in 1..Len(UserColumns)}
  /\ sortDirection \in {"asc", "desc", Null}
  /\ loading \in BOOLEAN /\ selectable \in BOOLEAN

(***************************************************************************)
(* Properties.                                                             *)
(***************************************************************************)
Unsorted == sortColumn = Null /\ sortDirection = Null

\* the step is a click on the header of a column that carries sortable: true
SortableClick ==
  /\ lastOp'.op = "handleSort"
  /\ \E i \in 1..Len(columns) :
       /\ columns[i].key = lastOp'.column
       /\ "sortable" \in DOMAIN columns[i]
       /\ columns[i].sortable = TRUE

\* the step is a click on the header of a column whose sortable flag is
\* false or missing
NonSortableClick ==
  /\ lastOp'.op = "handleSort"
  /\ \E i \in 1..Len(columns) :
       /\ columns[i].key = lastOp'.column
       /\ ("sortable" \notin DOMAIN columns[i] \/ columns[i].sortable = FALSE)

\* C1: a header click on a sortable column C moves the sort state by the
\* table (none) -> (C, asc), (C, asc) -> (C, desc), (C, desc) -> (none, none),
\* (D, any) with D # C -> (C, asc); every sort state a click starts from is
\* one of these four rows, so a click produces no other sort state.
C1_HeaderClickTable ==
  [][SortableClick =>
       LET C == lastOp'.column
       IN /\ Unsorted => (sortColumn' = C /\ sortDirection' = "asc")
          /\ (sortColumn = C /\ sortDirection = "asc")
               => (sortColumn' = C /\ sortDirection' = "desc")
          /\ (sortColumn = C /\ sortDirection = "desc")
               => (sortColumn' = Null /\ sortDirection' = Null)
          /\ (sortColumn \notin {C, Null} /\ sortDirection \in {"asc", "desc"})
               => (sortColumn' = C /\ sortDirection' = "asc")
          /\ \/ Unsorted
             \/ sortColumn = C /\ sortDirection \in {"asc", "desc"}
             \/ sortColumn \notin {C, Null} /\ sortDirection \in {"asc", "desc"}
  ]_vars

\* a click on "stock" has just sorted two rows by stock, ascending
C1_Witness ==
  /\ lastOp.op = "handleSort" /\ lastOp.column = "stock"
  /\ sortColumn = "stock" /\ sortDirection = "asc"
  /\ Len(sortedData) = 2 /\ sortedData # data

\* C2: from the unsorted state three clicks on the same sortable column go
\* to (column, asc), then (column, desc), then back to the unsorted state,
\* and in the unsorted state the view is the data in its original order.
C2_ThreeClickCycle ==
  /\ [](Unsorted => sortedData = data)
  /\ [][SortableClick =>
          LET C == lastOp'.column
          IN /\ Unsorted => (sortColumn' = C /\ sortDirection' = "asc")
             /\ (sortColumn = C /\ sortDirection = "asc")
                  => (sortColumn' = C /\ sortDirection' = "desc")
             /\ (sortColumn = C /\ sortDirection = "desc")
                  => (Unsorted' /\ sortedData' = data /\ data' = data)
     ]_vars

\* the third click on "name" has just happened, on data that the sort on
\* "name" had reordered
C2_Witness ==
  /\ lastOp.op = "handleSort" /\ lastOp.column = "name"
  /\ Unsorted
  /\ data = <<Row1, Row2>>
  /\ sortedData = data

\* C3: sortColumn and sortDirection are both set or both null.
C3_BothOrNeither == (sortColumn = Null) <=> (sortDirection = Null)

\* a sort is active while a row is selected and the data was replaced
C3_Witness ==
  /\ sortColumn = "name" /\ sortDirection = "desc"
  /\ selectedRows # <<>>
  /\ lastOp.op = "setData"

\* C4: a click on a column whose sortable flag is false or missing changes
\* neither the sort state nor the displayed order.
C4_NonSortableNoOp ==
  [][NonSortableClick => UNCHANGED <<sortColumn, sortDirection, sortedData>>]_vars

\* the header of "email" (no sortable flag) was clicked while the view was
\* sorted into an order different from the data
C4_Witness ==
  /\ lastOp.op = "handleSort" /\ lastOp.column = "email"
  /\ sortColumn = "name" /\ sortDirection = "asc"
  /\ sortedData # data

Sorted == sortColumn # Null /\ sortDirection # Null

\* the comparison value of a row under the active sort column
KeyOf(item) == SortValue(item, columns, sortColumn)

\* the three-way comparison of two comparison values: two strings are
\* compared in lower case; -1 for less, 1 for greater, 0 otherwise
ThreeWay(v, w) ==
  LET bothText == v.t = "string" /\ w.t = "string"
      lv == IF bothText THEN Str(ToLowerCase(v.v)) ELSE v
      lw == IF bothText THEN Str(ToLowerCase(w.v)) ELSE w
  IN IF JSLess(lv, lw) THEN -1 ELSE IF JSLess(lw, lv) THEN 1 ELSE 0

\* C5: in a view sorted ascending no row is followed by a row with a smaller
\* comparison value, and in a view sorted descending no row is followed by a
\* row with a greater one.
C5_AdjacentOrdered ==
  Sorted =>
    \A i \in 1..(Len(sortedData) - 1) :
      LET c == ThreeWay(KeyOf(sortedData[i]), KeyOf(sortedData[i + 1]))
      IN /\ sortDirection = "asc" => c <= 0
         /\ sortDirection = "desc" => c >= 0

\* four rows sorted descending by stock into another order than the data
C5_Witness ==
  /\ sortColumn = "stock" /\ sortDirection = "desc"
  /\ Len(sortedData) = 4
  /\ sortedData # data
  /\ \E i \in 1..3 : ThreeWay(KeyOf(sortedData[i]), KeyOf(sortedData[i + 1])) = 1

\* C6: two rows that compare equal keep, in a sorted view, the relative
\* order they have in data.
C6_Stable ==
  Sorted =>
    \A a, b \in Range(data) :
      ThreeWay(KeyOf(a), KeyOf(b)) = 0 =>
        SelectSeq(sortedData, LAMBDA x : x \in {a, b})
          = SelectSeq(data, LAMBDA x : x \in {a, b})

IsText(v) == v.t = "string"

\* C7: two text values are compared in lower case: rows whose values differ
\* only in letter case compare equal (the comparator returns 0 and a sort
\* keeps them in data order), a view sorted ascending on a text column is
\* ordered by the lowercased values, and banana, Apple, cherry sorted
\* ascending gives Apple, banana, cherry.
C7_CaseInsensitive ==
  Sorted =>
    LET k == [cols |-> columns, sc |-> sortColumn, sd |-> sortDirection]
        lower(x) == ToLowerCase(KeyOf(x).v)
    IN /\ \A a, b \in Range(data) :
            (IsText(KeyOf(a)) /\ IsText(KeyOf(b)) /\ lower(a) = lower(b))
              => /\ compareFn(a, b, k) = 0
                 /\ SelectSeq(sortedData, LAMBDA x : x \in {a, b})
                      = SelectSeq(data, LAMBDA x : x \in {a, b})
       /\ \A i \in 1..(Len(sortedData) - 1) :
            (IsText(KeyOf(sortedData[i])) /\ IsText(KeyOf(sortedData[i + 1]))
               /\ sortDirection = "asc")
              => ~StrLess(lower(sortedData[i + 1]), lower(sortedData[i]))
       /\ (data = <<Row1, Row2, Row3>> /\ sortColumn = "name"
             /\ sortDirection = "asc")
            => sortedData = <<Row2, Row1, Row3>>

\* apple, banana, Apple sorted ascending by name: Apple moves up to, but not
\* past, apple
C7_Witness ==
  /\ sortColumn = "name" /\ sortDirection = "asc"
  /\ data = <<Row4, Row1, Row2>>
  /\ sortedData = <<Row4, Row2, Row1>>

\* C8: the view is what the sort computes from data and the sort state, and
\* sorting the view again by the same column and direction leaves it as it
\* is.
C8_Idempotent ==
  /\ sortedData =
       ComputeSortedData(data, columns, sortColumn, sortDirection, sortImpl)
  /\ ComputeSortedData(sortedData, columns, sortColumn, sortDirection, sortImpl)
       = sortedData

\* a sorted view of four rows, two of them different rows with equal keys,
\* in another order than the data
C8_Witness ==
  /\ Sorted
  /\ Len(data) = 4
  /\ sortedData # data
  /\ \E i, j \in 1..4 :
       /\ data[i] # data[j]
       /\ ThreeWay(KeyOf(data[i]), KeyOf(data[j])) = 0

\* C9: toggleRow(p, true) makes the selection the previous set plus p and
\* toggleRow(p, false) makes it the previous set minus p; no other position
\* changes membership.
C9_ToggleRow ==
  [][lastOp'.op = "handleRowSelect" =>
       LET p == lastOp'.index
       IN /\ lastOp'.checked => Range(selectedRows') = Range(selectedRows) \cup {p}
          /\ ~lastOp'.checked => Range(selectedRows') = Range(selectedRows) \ {p}
          /\ \A q \in (0..MaxRows) \ {p} :
               (q \in Range(selectedRows')) <=> (q \in Range(selectedRows))
  ]_vars

\* position 0 was just unchecked while position 1 stays selected
C9_Witness ==
  /\ lastOp.op = "handleRowSelect" /\ lastOp.index = 0 /\ ~lastOp.checked
  /\ Range(selectedRows) = {1}

\* C10: toggleRow and toggleAll hand onRowSelect, once, the list whose j-th
\* entry is what the displayed view (the view of the current data and sort
\* state) holds at the j-th position of the selection as it is after the
\* call.
C10_PayloadFromView ==
  lastOp.op \in {"handleRowSelect", "handleSelectAll"} =>
    /\ sortedData =
         ComputeSortedData(data, columns, sortColumn, sortDirection, sortImpl)
    /\ Len(emitted) = 1
    /\ Len(emitted[1]) = Len(selectedRows)
    /\ \A j \in 1..Len(selectedRows) :
         emitted[1][j] =
           IF selectedRows[j] + 1 \in DOMAIN sortedData
             THEN sortedData[selectedRows[j] + 1]
             ELSE Undefined

\* a row was checked in a view sorted into another order than the data: the
\* payload holds the row the view shows there, not the row of data
C10_Witness ==
  /\ lastOp.op = "handleRowSelect" /\ lastOp.checked
  /\ Sorted
  /\ data = <<Row1, Row2>>
  /\ selectedRows = <<0>>
  /\ emitted = << <<Row2>> >>

\* C11: toggleAll(true) on a view of N rows selects exactly the positions
\* 0..N-1, makes isAllSelected true and hands onRowSelect exactly N rows,
\* each a row of the current view.
C11_SelectAll ==
  (lastOp.op = "handleSelectAll" /\ lastOp.checked) =>
    LET N == Len(sortedData)
    IN /\ Range(selectedRows) = 0..(N - 1)
       /\ Len(selectedRows) = N
       /\ isAllSelected
       /\ Len(emitted) = 1
       /\ Len(emitted[1]) = N
       /\ \A j \in 1..N : emitted[1][j] \in Range(sortedData)
       /\ emitted[1] = sortedData

\* select-all was just checked on two rows sorted into another order than
\* the data
C11_Witness ==
  /\ lastOp.op = "handleSelectAll" /\ lastOp.checked
  /\ Len(sortedData) = 2
  /\ sortedData # data

\* C12: toggleAll(false) empties the selection and hands onRowSelect the
\* empty list; afterwards neither isAllSelected nor isPartiallySelected
\* holds.
C12_DeselectAll ==
  (lastOp.op = "handleSelectAll" /\ ~lastOp.checked) =>
    /\ selectedRows = <<>>
    /\ emitted = << <<>> >>
    /\ ~isAllSelected
    /\ ~isIndeterminate

\* select-all was just unchecked on a view of two rows
C12_Witness ==
  /\ lastOp.op = "handleSelectAll" /\ ~lastOp.checked
  /\ Len(sortedData) = 2
  /\ selectedRows = <<>>

\* the number of selected positions
SelectionSize == Cardinality(Range(selectedRows))

\* C13: isAllSelected holds exactly when the selection is non-empty and as
\* large as the view, isPartiallySelected exactly when it is non-empty and
\* smaller than the view; one selected row out of several gives
\* isPartiallySelected and not isAllSelected.
C13_AggregateFlags ==
  /\ isAllSelected <=> (SelectionSize > 0 /\ SelectionSize = Len(sortedData))
  /\ isIndeterminate <=> (SelectionSize > 0 /\ SelectionSize < Len(sortedData))
  /\ (SelectionSize = 1 /\ Len(sortedData) > 1)
       => (isIndeterminate /\ ~isAllSelected)

\* one row of two was just checked
C13_Witness ==
  /\ lastOp.op = "handleRowSelect" /\ lastOp.checked
  /\ SelectionSize = 1
  /\ Len(sortedData) = 2
  /\ isIndeterminate /\ ~isAllSelected

\* C14: every selected position is a position of the current view.
C14_PositionsInView ==
  \A p \in Range(selectedRows) : p >= 0 /\ p < Len(sortedData)

ToggleOps == {"handleRowSelect", "handleSelectAll"}
PropOps == {"setData", "setColumns", "setLoading"}

\* C16: a header click leaves the selection as it is, a row or select-all
\* toggle leaves the sort state as it is, and a change of data, columns or
\* loading leaves both as they are.
C16_Frame ==
  [][/\ (lastOp'.op = "handleSort" => selectedRows' = selectedRows)
     /\ (lastOp'.op \in ToggleOps
          => (sortColumn' = sortColumn /\ sortDirection' = sortDirection))
     /\ (lastOp'.op \in PropOps
          => (/\ selectedRows' = selectedRows
              /\ sortColumn' = sortColumn
              /\ sortDirection' = sortDirection))
  ]_vars

\* the column model was just replaced while a sort is active and a row is
\* selected
C16_Witness ==
  /\ lastOp.op = "setColumns"
  /\ sortColumn = "stock" /\ sortDirection = "asc"
  /\ selectedRows # <<>>

\* C17: every toggleRow and every toggleAll calls onRowSelect exactly once,
\* with a list as long as the updated selection; no other step calls it, and
\* no step changes the selection without calling it.
C17_CallbackOnToggle ==
  /\ [](/\ (lastOp.op \in ToggleOps
              => (Len(emitted) = 1 /\ Len(emitted[1]) = Len(selectedRows)))
        /\ (lastOp.op \notin ToggleOps => emitted = <<>>))
  /\ [][selectedRows' # selectedRows
          => (lastOp'.op \in ToggleOps /\ Len(emitted') = 1)]_vars

\* a row was just unchecked: one call, with the one row that stays selected
C17_Witness ==
  /\ lastOp.op = "handleRowSelect" /\ ~lastOp.checked
  /\ Len(emitted) = 1
  /\ Len(emitted[1]) = 1

\* C18: while selectable is false no toggle happens: the selection stays
\* empty and onRowSelect is not called.
C18_NotSelectable ==
  ~selectable =>
    /\ selectedRows = <<>>
    /\ emitted = <<>>
    /\ lastOp.op \notin ToggleOps
    /\ ~ENABLED handleSelectAll
    /\ \A index \in 0..MaxRows : ~ENABLED handleRowSelect(index)

\* a table that is not selectable shows two rows, sorted by a header click
C18_Witness ==
  /\ ~selectable
  /\ ~loading
  /\ Len(sortedData) = 2
  /\ lastOp.op = "handleSort"
  /\ sortDirection = "desc"

\* C19: exactly one render state holds: Loading whenever loading is true,
\* Empty exactly when loading is false and data is empty, Normal exactly
\* when loading is false and data is not empty.
C19_RenderStates ==
  /\ RenderState \in {"Loading", "Empty", "Normal"}
  /\ (loading => RenderState = "Loading")
  /\ (RenderState = "Loading" => loading)
  /\ (RenderState = "Empty" <=> (~loading /\ Len(data) = 0))
  /\ (RenderState = "Normal" <=> (~loading /\ Len(data) > 0))

\* loading was just switched on over empty data
C19_Witness ==
  /\ lastOp.op = "setLoading"
  /\ loading
  /\ Len(data) = 0

\* the two-variant rule: accessor(row) when the column has an accessor, else
\* the field named by the key, the absent value when the row has no such
\* field
ColumnValue(item, column) ==
  IF "accessor" \in DOMAIN column
    THEN Elem(IF column.key \in DOMAIN item THEN item[column.key] ELSE Undefined)
    ELSE IF column.key \in DOMAIN item THEN item[column.key] ELSE Undefined

\* C20: a cell shows the value the two-variant rule gives for its row and
\* column, and the comparison value of a row under the active sort column is
\* the value the same rule gives for that column.
C20_TwoVariantRule ==
  \A item \in Range(data) :
    /\ \A i \in 1..Len(columns) :
         renderCellContent(item, columns[i]) = ColumnValue(item, columns[i])
    /\ (Sorted =>
         \A i \in 1..Len(columns) :
           columns[i].key = sortColumn
             => SortValue(item, columns, sortColumn) = ColumnValue(item, columns[i]))

\* the view is sorted on the accessor column status and holds the row
\* without a stock field
C20_Witness ==
  /\ sortColumn = "status" /\ sortDirection = "asc"
  /\ Row3 \in Range(data)
  /\ renderCellContent(Row3, columns[2]) = Undefined

\* the rows the checked checkboxes sit on (lines 511-528)
DisplayedSelected ==
  {sortedData[p + 1] : p \in {q \in Range(selectedRows) : q < Len(sortedData)}}

\* C15: the selection is a set of positions: a header click or a data
\* replacement made while rows are selected keeps the selected positions,
\* whatever rows now sit on them.
C15_PositionalSelection ==
  [][(selectedRows # <<>> /\ lastOp'.op \in {"handleSort", "setData"})
       => selectedRows' = selectedRows]_vars

\* after a header click the checked rows are no longer the rows last handed
\* to onRowSelect
C15_Witness ==
  /\ lastOp.op = "handleSort"
  /\ selectedRows # <<>>
  /\ \A p \in Range(selectedRows) : p < Len(sortedData)
  /\ Len(reported) = 1
  /\ Len(reported[1]) = Len(selectedRows)
  /\ DisplayedSelected # Range(reported[1])

\* how many times row r occurs in arr
CountIn(arr, r) == Cardinality({i \in DOMAIN arr : arr[i] = r})

\* C21: the displayed view is a permutation of data (same length, every row
\* as many times as in data), and a header click leaves the caller's data
\* sequence as it was.
C21_Permutation ==
  /\ [](/\ Len(sortedData) = Len(data)
        /\ \A r \in Range(data) \cup Range(sortedData) :
             CountIn(sortedData, r) = CountIn(data, r))
  /\ [][lastOp'.op = "handleSort" => data' = data]_vars

\* four rows with one row twice, displayed in an order that is not the
\* caller's
C21_Witness ==
  /\ Sorted
  /\ Len(data) = 4
  /\ CountIn(data, Row2) = 2
  /\ sortedData # data

\* C22: a row toggle hands onRowSelect rows of the current view only, one
\* for each selected position.
C22_PayloadRowsOnly ==
  lastOp.op = "handleRowSelect" =>
    /\ Len(emitted) = 1
    /\ Len(emitted[1]) = Len(selectedRows)
    /\ \A j \in 1..Len(emitted[1]) : emitted[1][j] \in Range(sortedData)

\* C23: while a row is selected, exactly one of isAllSelected and
\* isIndeterminate is true.
C23_ExactlyOneFlag ==
  selectedRows # <<>> =>
    /\ isAllSelected \/ isIndeterminate
    /\ ~(isAllSelected /\ isIndeterminate)

\* C24: under a column model that does not change, an active sort column is
\* the key of a column that carries sortable: true.
C24_SortColumnSortable ==
  sortColumn # Null =>
    \E i \in 1..Len(columns) :
      /\ columns[i].key = sortColumn
      /\ "sortable" \in DOMAIN columns[i]
      /\ columns[i].sortable = TRUE

\* the header of "id" (sortable: false) was clicked while the view was
\* sorted by status, descending
C24_Witness ==
  /\ lastOp.op = "handleSort" /\ lastOp.column = "id"
  /\ sortColumn = "status" /\ sortDirection = "desc"

\* the text the input element shows
Displayed == IF value # Undefined THEN value ELSE internalValue

EditOps == {"handleChange", "handleClear"}

\* C25: a field with a value prop shows that prop and typing or clearing
\* leaves its internal value alone; a field without one shows the empty text
\* at first and then the text typed last (the empty text after a clear);
\* every typed change and every clear calls onChange, in both modes.
C25_ControlledUncontrolled ==
  /\ [](/\ (value # Undefined => displayValue = value)
        /\ ((value = Undefined /\ lastOp.op = "mount") => displayValue = Text(0))
        /\ ((value = Undefined /\ lastOp.op = "handleChange")
              => displayValue = lastOp.value)
        /\ ((value = Undefined /\ lastOp.op = "handleClear")
              => displayValue = Text(0))
        /\ (lastOp.op = "handleChange"
              => (Len(changes) >= 1
                  /\ \A j \in 1..Len(changes) : changes[j] = lastOp.value))
        /\ (lastOp.op = "handleClear"
              => (Len(changes) >= 1
                  /\ \A j \in 1..Len(changes) : changes[j] = Text(0))))
  /\ [][/\ (value # Undefined => internalValue' = internalValue)
        /\ ((value = Undefined /\ lastOp'.op \notin EditOps)
              => displayValue' = displayValue)]_vars

\* an uncontrolled field with an object ref was just cleared after typing
C25_Witness ==
  /\ value = Undefined
  /\ hasRef
  /\ lastOp.op = "handleClear"
  /\ Len(changes) = 2
  /\ internalValue = Text(0)

\* C26: at most one of spinner, clear button and password toggle is
\* rendered, and the clear button is rendered exactly when the shown text is
\* not empty, showClearButton is set and the field is neither loading nor
\* disabled.
C26_OneControl ==
  /\ ~(SpinnerShown /\ ClearShown)
  /\ ~(SpinnerShown /\ ToggleShown)
  /\ ~(ClearShown /\ ToggleShown)
  /\ ClearShown <=>
       (Displayed # Text(0) /\ showClearButton /\ ~fieldLoading /\ ~disabled)

\* a password field with showClearButton shows the clear button once a text
\* is typed
C26_Witness ==
  /\ lastOp.op = "handleChange"
  /\ type = "password"
  /\ ClearShown
  /\ ~ToggleShown /\ ~SpinnerShown

\* the behaviour of the eye button and of the type attribute
ToggleBehaviour ==
  /\ [](/\ (lastOp.op = "mount" => InputType = type)
        /\ (type = "password"
              => (InputType = (IF showPassword THEN "text" ELSE "password")))
        /\ (type \in {"text", "email"} => InputType = type))
  /\ [][/\ (lastOp'.op = "togglePasswordVisibility"
              => /\ type = "password"
                 /\ InputType' # InputType
                 /\ {InputType, InputType'} = {"password", "text"})
        /\ (lastOp'.op # "togglePasswordVisibility" => InputType' = InputType)
       ]_vars

\* C27 as stated: every field of type password offers the eye button; the
\* text is hidden at first, each click flips the type attribute between
\* password and text (text exactly when showPassword), two clicks restore
\* it, and the type attribute of a text or email field never changes.
C27_PasswordToggle ==
  /\ [](type = "password" => ToggleShown)
  /\ ToggleBehaviour

\* C27 amended: a field of type password that is not loading and has
\* showClearButton false offers the eye button; the rest as stated.
C27_PasswordToggleWhenOffered ==
  /\ []((type = "password" /\ ~showClearButton /\ ~fieldLoading) => ToggleShown)
  /\ ToggleBehaviour

\* the eye button was clicked a second time: the text is hidden again
C27_Witness ==
  /\ lastOp.op = "togglePasswordVisibility"
  /\ type = "password"
  /\ ~showPassword
  /\ InputType = "password"
====
